---- MODULE Spec2Model ----
(***************************************************************************)
(* Model of systemImplementation.py: a command-line front end over the     *)
(* DeepFace engine.  One process run = one behaviour: the command line is  *)
(* parsed, one of three adapters (recognize_face, analyze_face,            *)
(* verify_faces) calls the engine once, and main prints the adapter's      *)
(* result as JSON.  The engine and the file system are the environment:    *)
(* what they answer is chosen nondeterministically at each call.           *)
(***************************************************************************)
EXTENDS Integers, Sequences, FiniteSets, TLC

VARIABLES
    argv,       \* the command line the process was started with
    fs0,        \* the file system when the process started
    pc,         \* position in main: "start", "dispatch", "print", "done"
    args,       \* the namespace parse_args returned
    ret,        \* the value the adapter returned to main (hits / info / verdict)
    failure,    \* the exception raised inside the adapter's try block, if any
    raised,     \* the exception that left the adapter, NoException if none
    engineCalls,  \* the calls made to DeepFace, in order
    engineAnswers, \* what DeepFace answered to each call, in order
    adapterCalls, \* the adapters main called, in order
    stdout,     \* the documents printed to standard output
    stderr,     \* the lines printed to the error stream
    fs,         \* the file system: path -> content
    exitCode    \* the process's exit status, Running until it ends

vars == <<argv, fs0, pc, args, ret, failure, raised, engineCalls, engineAnswers,
          adapterCalls, stdout, stderr, fs, exitCode>>

----------------------------------------------------------------------------
(* Bounds of the model *)

\* the longest --actions list given on a command line
MaxActions == 2
\* the most candidate rows the engine's find reports
MaxRows == 2
\* the largest distance score the engine reports
MaxDistance == 2

Range(s) == {s[i] : i \in DOMAIN s}

----------------------------------------------------------------------------
(* Python values *)

None == [py |-> "None"]
PyBool(b) == [py |-> "bool", b |-> b]
PyInt(n) == [py |-> "int", n |-> n]
PyStr(s) == [py |-> "str", s |-> s]
\* a numpy scalar (numpy.float32, numpy.bool_, ...): not a Python number
NumPy(n) == [py |-> "numpy", n |-> n]
PyDict(m) == [py |-> "dict", m |-> m]
PyList(e) == [py |-> "list", e |-> e]

EmptyMap == [k \in {} |-> None]
EmptyDict == PyDict(EmptyMap)
EmptyList == PyList(<< >>)

\* Python truthiness, as `if output_json:` uses it
Truthy(v) ==
    CASE v.py = "None" -> FALSE
      [] v.py = "str" -> v.s # ""
      [] v.py = "bool" -> v.b
      [] v.py = "int" -> v.n # 0
      [] v.py = "dict" -> DOMAIN v.m # {}
      [] v.py = "list" -> Len(v.e) > 0
      [] OTHER -> TRUE

\* dict.get(key, default)
dict_get(d, key, default) ==
    IF key \in DOMAIN d.m THEN d.m[key] ELSE default

----------------------------------------------------------------------------
(* Exceptions *)

NoException == [type |-> "none", msg |-> ""]
Raise(type, msg) == [type |-> type, msg |-> msg]

\* the classes `except Exception` catches among those raised here
ExceptionSubclasses == {"ValueError", "OSError", "TypeError", "AttributeError"}

----------------------------------------------------------------------------
(* json: a text is modelled by its layout (the indent) and the JSON document
   it spells; dumps encodes a Python value, loads decodes a document *)

RECURSIVE JsonSerializable(_)
\* json.dumps raises TypeError on an object its encoder does not know
JsonSerializable(v) ==
    CASE v.py \in {"None", "bool", "int", "str"} -> TRUE
      [] v.py = "dict" -> \A k \in DOMAIN v.m : JsonSerializable(v.m[k])
      [] v.py = "list" -> \A i \in DOMAIN v.e : JsonSerializable(v.e[i])
      [] OTHER -> FALSE

RECURSIVE JsonEncode(_)
\* the JSON document json.dumps spells for a serializable value
JsonEncode(v) ==
    CASE v.py = "None" -> [js |-> "null"]
      [] v.py = "bool" -> [js |-> IF v.b THEN "true" ELSE "false"]
      [] v.py = "int" -> [js |-> "number", n |-> v.n]
      [] v.py = "str" -> [js |-> "string", s |-> v.s]
      [] v.py = "dict" ->
            [js |-> "object", m |-> [k \in DOMAIN v.m |-> JsonEncode(v.m[k])]]
      [] v.py = "list" ->
            [js |-> "array", e |-> [i \in DOMAIN v.e |-> JsonEncode(v.e[i])]]

\* json.dumps(obj, indent=indent, ensure_ascii=False)
json_dumps(obj, indent) == [indent |-> indent, doc |-> JsonEncode(obj)]

RECURSIVE JsonDecode(_)
JsonDecode(j) ==
    CASE j.js = "null" -> None
      [] j.js = "true" -> PyBool(TRUE)
      [] j.js = "false" -> PyBool(FALSE)
      [] j.js = "number" -> PyInt(j.n)
      [] j.js = "string" -> PyStr(j.s)
      [] j.js = "object" -> PyDict([k \in DOMAIN j.m |-> JsonDecode(j.m[k])])
      [] j.js = "array" -> PyList([i \in DOMAIN j.e |-> JsonDecode(j.e[i])])

\* json.loads(text)
json_loads(text) == JsonDecode(text.doc)

\* the indent main prints with, and the indent analyze_face writes files with
PrintIndent == 2
FileIndent == 4

----------------------------------------------------------------------------
(* Files *)

ReportPath == "report.json"
OtherPath == "notes.txt"
Paths == {ReportPath, OtherPath}

NoFile == [f |-> "absent"]
OldContent == [f |-> "old"]
\* a file opened with "w" (so truncated) whose writing did not complete
Partial == [f |-> "partial"]
FileOf(text) == [f |-> "json", text |-> text]

\* what the environment does to open(path, "w") and the writes that follow
IoOutcomes == {"ok", "open_fails", "write_fails"}

----------------------------------------------------------------------------
(* The DeepFace engine: the environment.  A world is what the engine would
   answer in this run; the engine operators give its answer to one call. *)

NoFace == Raise("ValueError", "Face could not be detected")
Unreadable == Raise("OSError", "image could not be read")
EngineErrors == {NoFace, Unreadable}

\* enforce_detection=False: the engine does not raise on "no face found"
EngineRaises(world, enforce_detection) ==
    /\ world.exc # NoException
    /\ (world.exc = NoFace => enforce_detection)

Answer(world, enforce_detection, value) ==
    IF EngineRaises(world, enforce_detection)
    THEN [exc |-> world.exc, value |-> None]
    ELSE [exc |-> NoException, value |-> value]

Identities == {"db/a.jpg", "db/b.jpg"}
FrameColumns == <<"identity", "distance">>
Candidates == {<<PyStr(i), PyInt(d)>> : i \in Identities, d \in 0..MaxDistance}

\* the engine's find reports its candidates sorted by ascending distance
SortedRows ==
    {rows \in UNION {[1..n -> Candidates] : n \in 0..MaxRows} :
        \A i, j \in DOMAIN rows : i < j => rows[i][2].n <= rows[j][2].n}

FindWorlds == [exc : EngineErrors \cup {NoException}, rows : SortedRows]

\* DeepFace.find(...): a DataFrame of candidates
DeepFace_find(call, world) ==
    Answer(world, call.enforce_detection,
           [columns |-> FrameColumns, rows |-> world.rows])

Attributes == {"age", "gender", "race", "emotion"}
\* a prediction is a Python number or a numpy scalar
Predictions == {PyInt(31), NumPy(31)}

AnalyzeWorlds == [exc : EngineErrors \cup {NoException},
                  pred : [Attributes -> Predictions]]

\* DeepFace.analyze(...): a dict of the requested attributes and their values
DeepFace_analyze(call, world) ==
    Answer(world, call.enforce_detection,
           PyDict([k \in Range(call.actions.e) \cap Attributes |-> world.pred[k]]))

VerdictKeys == {"verified", "distance", "threshold"}
ExtraKeys == {"time"}
EngineScalars == {PyBool(TRUE), PyInt(1), NumPy(1)}
EngineVerdicts ==
    UNION {[ks -> EngineScalars] : ks \in SUBSET (VerdictKeys \cup ExtraKeys)}

VerifyWorlds == [exc : EngineErrors \cup {NoException}, result : EngineVerdicts]

\* DeepFace.verify(...): a dict with verified, distance, threshold and more
DeepFace_verify(call, world) ==
    Answer(world, call.enforce_detection, PyDict(world.result))

----------------------------------------------------------------------------
(* The adapters.  Each returns what the call did: the value returned, the
   exception raised in its try block, the exception that left it, the lines
   it printed to stderr, its engine call and answer, and the file system. *)

ErrorLine(operation, exc) ==
    [prefix |-> "[ERROR]", operation |-> operation, text |-> "failed:",
     msg |-> exc.msg]

\* mutant: the clause reads `except ValueError`, other failures leave the adapter
ExceptException_OnlyValueError(operation, exc, empty, call, answer, fsNow) ==
    IF exc.type = "ValueError"
    THEN [ret |-> empty, failure |-> exc, raised |-> NoException,
          stderr |-> <<ErrorLine(operation, exc)>>,
          call |-> call, answer |-> answer, fs |-> fsNow]
    ELSE [ret |-> None, failure |-> exc, raised |-> exc, stderr |-> << >>,
          call |-> call, answer |-> answer, fs |-> fsNow]

\* except Exception as e: print(f"[ERROR] <operation> failed: {e}"); return empty
ExceptException(operation, exc, empty, call, answer, fsNow) ==
    IF exc.type \in ExceptionSubclasses
    THEN [ret |-> empty, failure |-> exc, raised |-> NoException,
          stderr |-> <<ErrorLine(operation, exc)>>,
          call |-> call, answer |-> answer, fs |-> fsNow]
    ELSE [ret |-> None, failure |-> exc, raised |-> exc, stderr |-> << >>,
          call |-> call, answer |-> answer, fs |-> fsNow]

Returns(value, call, answer, fsNow) ==
    [ret |-> value, failure |-> NoException, raised |-> NoException,
     stderr |-> << >>, call |-> call, answer |-> answer, fs |-> fsNow]

\* mutant: the records come out in reverse row order
to_dict_records_Reversed(df) ==
    PyList([i \in DOMAIN df.rows |->
               PyDict([c \in Range(df.columns) |->
                          df.rows[Len(df.rows) + 1 - i]
                                 [CHOOSE n \in DOMAIN df.columns :
                                      df.columns[n] = c]])])

\* DataFrame.to_dict(orient="records"): one dict per row, in row order
to_dict_records(df) ==
    PyList([i \in DOMAIN df.rows |->
               PyDict([c \in Range(df.columns) |->
                          df.rows[i][CHOOSE n \in DOMAIN df.columns :
                                         df.columns[n] = c]])])

recognize_face(img_path, db_path, model_name, detector_backend, enforce_detection, world, fsNow) ==
    LET call == [op |-> "find", img_path |-> img_path, db_path |-> db_path,
                 model_name |-> model_name,
                 detector_backend |-> detector_backend,
                 enforce_detection |-> enforce_detection]
        answer == DeepFace_find(call, world)
    IN  IF answer.exc # NoException
        THEN ExceptException("Recognition", answer.exc, EmptyList,
                             call, answer, fsNow)
        ELSE Returns(to_dict_records(answer.value), call, answer, fsNow)

DefaultActions == PyList(<<"age", "gender", "race", "emotion">>)

\* mutant: the requested actions are always replaced by the default four
ActionsOrDefault_Always(actions) == DefaultActions

\* if actions is None: actions = ["age", "gender", "race", "emotion"]
ActionsOrDefault(actions) ==
    IF actions = None THEN DefaultActions ELSE actions

\* mutant: the file is opened with "a", so a report lands after what was there
DumpToFile_Append(result, path, io, fsNow) ==
    IF io = "open_fails"
    THEN [exc |-> Raise("OSError", "cannot open file"), fs |-> fsNow]
    ELSE IF ~JsonSerializable(result) \/ io = "write_fails"
    THEN [exc |-> Raise("OSError", "cannot write file"),
          fs |-> [fsNow EXCEPT ![path] = Partial]]
    ELSE [exc |-> NoException,
          fs |-> [fsNow EXCEPT ![path] =
                     IF fsNow[path] = NoFile
                     THEN FileOf(json_dumps(result, FileIndent))
                     ELSE [f |-> "appended"]]]

\* with open(output_json, "w") as fp: json.dump(result, fp, indent=4, ...)
\* gives the exception raised (NoException if none) and the file system left
DumpToFile(result, path, io, fsNow) ==
    IF io = "open_fails"
    THEN [exc |-> Raise("OSError", "cannot open file"), fs |-> fsNow]
    ELSE IF ~JsonSerializable(result)
    THEN [exc |-> Raise("TypeError", "not JSON serializable"),
          fs |-> [fsNow EXCEPT ![path] = Partial]]
    ELSE IF io = "write_fails"
    THEN [exc |-> Raise("OSError", "cannot write file"),
          fs |-> [fsNow EXCEPT ![path] = Partial]]
    ELSE [exc |-> NoException,
          fs |-> [fsNow EXCEPT ![path] = FileOf(json_dumps(result, FileIndent))]]

analyze_face(img_path, actions, model_name, detector_backend, enforce_detection, output_json, world, io, fsNow) ==
    LET call == [op |-> "analyze", img_path |-> img_path,
                 actions |-> ActionsOrDefault(actions),
                 model_name |-> model_name,
                 detector_backend |-> detector_backend,
                 enforce_detection |-> enforce_detection]
        answer == DeepFace_analyze(call, world)
        dump == DumpToFile(answer.value, output_json.s, io, fsNow)
    IN  IF answer.exc # NoException
        THEN ExceptException("Analysis", answer.exc, EmptyDict,
                             call, answer, fsNow)
        ELSE IF ~Truthy(output_json)
        THEN Returns(answer.value, call, answer, fsNow)
        ELSE IF dump.exc # NoException
        THEN ExceptException("Analysis", dump.exc, EmptyDict,
                             call, answer, dump.fs)
        ELSE Returns(answer.value, call, answer, dump.fs)

\* mutant: the engine's result is returned as it came
Verdict_PassThrough(result) == result

\* mutant: a missing verified falls back to None like the other two keys
Verdict_NoneFallback(result) ==
    PyDict([k \in VerdictKeys |-> dict_get(result, k, None)])

\* the dict verify_faces builds from the engine's result
Verdict(result) ==
    PyDict([k \in VerdictKeys |->
               IF k = "verified" THEN dict_get(result, k, PyBool(FALSE))
               ELSE dict_get(result, k, None)])

verify_faces(img1, img2, model_name, distance_metric, detector_backend, enforce_detection, world, fsNow) ==
    LET call == [op |-> "verify", img1_path |-> img1, img2_path |-> img2,
                 model_name |-> model_name,
                 distance_metric |-> distance_metric,
                 detector_backend |-> detector_backend,
                 enforce_detection |-> enforce_detection]
        answer == DeepFace_verify(call, world)
    IN  IF answer.exc # NoException
        THEN ExceptException("Verification", answer.exc, EmptyDict,
                             call, answer, fsNow)
        ELSE Returns(Verdict(answer.value), call, answer, fsNow)

----------------------------------------------------------------------------
(* The command line and argparse *)

Absent == "<absent>"

NoFlags ==
    [command |-> Absent, img |-> Absent, db |-> Absent, img1 |-> Absent,
     img2 |-> Absent, model |-> Absent, backend |-> Absent, metric |-> Absent,
     actions |-> << >>, no_enforce |-> FALSE, out |-> Absent]

Maybe(value) == {Absent, value}

\* the --actions lists a command line can give (nargs="+": at least one)
ActionLists == UNION {[1..n -> Attributes] : n \in 1..MaxActions}

RecognizeLines ==
    {[NoFlags EXCEPT !.command = "recognize", !.img = i, !.db = d,
                     !.model = m, !.backend = b, !.no_enforce = n] :
        i \in Maybe("query.jpg"), d \in Maybe("faces_db"),
        m \in Maybe("Facenet"), b \in Maybe("retinaface"), n \in BOOLEAN}

AnalyzeLines ==
    {[NoFlags EXCEPT !.command = "analyze", !.img = i, !.actions = a,
                     !.model = m, !.backend = b, !.no_enforce = n, !.out = o] :
        i \in Maybe("face.jpg"), a \in ActionLists \cup {<< >>},
        m \in Maybe("VGG-Face"), b \in Maybe("opencv"), n \in BOOLEAN,
        o \in {Absent, "", ReportPath}}

VerifyLines ==
    {[NoFlags EXCEPT !.command = "verify", !.img1 = i, !.img2 = j,
                     !.model = m, !.metric = t, !.backend = b,
                     !.no_enforce = n] :
        i \in Maybe("a.jpg"), j \in Maybe("b.jpg"), m \in Maybe("Facenet"),
        t \in Maybe("euclidean"), b \in Maybe("mtcnn"), n \in BOOLEAN}

CommandLines == {NoFlags} \cup RecognizeLines \cup AnalyzeLines \cup VerifyLines

\* add_argument(flag, default=default)
WithDefault(given, default) == IF given = Absent THEN default ELSE given

\* mutant: the flag is declared with action="store_true"
store_false_AsStoreTrue(flagGiven) == flagGiven

\* mutant: the flag is declared without required=True
required_Ignored(given) == FALSE

\* add_argument(flag, required=True): parsing fails when the flag is not given
required(given) == given = Absent

\* add_argument("--no-enforce", action="store_false", dest="enforce_detection")
store_false(flagGiven) == ~flagGiven

UsageError == [error |-> TRUE, command |-> Absent]

\* parser.parse_args(): the namespace, or a usage error
parse_args(av) ==
    CASE av.command = "recognize" ->
            IF required(av.img) \/ required(av.db) THEN UsageError
            ELSE [error |-> FALSE, command |-> "recognize",
                  img |-> av.img, db |-> av.db,
                  model |-> WithDefault(av.model, "VGG-Face"),
                  backend |-> WithDefault(av.backend, "opencv"),
                  enforce_detection |-> store_false(av.no_enforce)]
      [] av.command = "analyze" ->
            IF required(av.img) THEN UsageError
            ELSE [error |-> FALSE, command |-> "analyze", img |-> av.img,
                  actions |-> IF av.actions = << >> THEN DefaultActions
                              ELSE PyList(av.actions),
                  model |-> WithDefault(av.model, "Facenet"),
                  backend |-> WithDefault(av.backend, "mtcnn"),
                  enforce_detection |-> store_false(av.no_enforce),
                  out |-> IF av.out = Absent THEN None ELSE PyStr(av.out)]
      [] av.command = "verify" ->
            IF required(av.img1) \/ required(av.img2) THEN UsageError
            ELSE [error |-> FALSE, command |-> "verify",
                  img1 |-> av.img1, img2 |-> av.img2,
                  model |-> WithDefault(av.model, "ArcFace"),
                  metric |-> WithDefault(av.metric, "cosine"),
                  backend |-> WithDefault(av.backend, "dlib"),
                  enforce_detection |-> store_false(av.no_enforce)]
      [] OTHER -> UsageError

----------------------------------------------------------------------------
(* main *)

Unparsed == [error |-> FALSE, command |-> Absent]
UsageLine == [prefix |-> "usage:", operation |-> "argparse",
              text |-> "error:", msg |-> "the following arguments are required"]
Traceback(exc) == [prefix |-> "Traceback", operation |-> "main",
                   text |-> exc.type, msg |-> exc.msg]

InitialFileSystems ==
    {[p \in Paths |-> IF p = ReportPath THEN c ELSE OldContent] :
        c \in {NoFile, OldContent}}

Init ==
    /\ argv \in CommandLines
    /\ fs0 \in InitialFileSystems
    /\ fs = fs0
    /\ pc = "start"
    /\ args = Unparsed
    /\ ret = None
    /\ failure = NoException
    /\ raised = NoException
    /\ engineCalls = << >>
    /\ engineAnswers = << >>
    /\ adapterCalls = << >>
    /\ stdout = << >>
    /\ stderr = << >>
    /\ exitCode = -1

\* args = parser.parse_args(): a usage error ends the process with status 2
ParseArgs ==
    /\ pc = "start"
    /\ args' = parse_args(argv)
    /\ IF args'.error
       THEN /\ pc' = "done"
            /\ exitCode' = 2
            /\ stderr' = Append(stderr, UsageLine)
       ELSE /\ pc' = "dispatch"
            /\ UNCHANGED <<exitCode, stderr>>
    /\ UNCHANGED <<argv, fs0, ret, failure, raised, engineCalls,
                   engineAnswers, adapterCalls, stdout, fs>>

\* main receives what the adapter call did; an exception leaving the adapter
\* is not handled in main and ends the process with a traceback and status 1
AdapterCalled(name, r) ==
    /\ adapterCalls' = Append(adapterCalls, name)
    /\ engineCalls' = Append(engineCalls, r.call)
    /\ engineAnswers' = Append(engineAnswers, r.answer)
    /\ ret' = r.ret
    /\ failure' = r.failure
    /\ raised' = r.raised
    /\ fs' = r.fs
    /\ IF r.raised = NoException
       THEN /\ stderr' = stderr \o r.stderr
            /\ pc' = "print"
            /\ UNCHANGED exitCode
       ELSE /\ stderr' = stderr \o r.stderr \o <<Traceback(r.raised)>>
            /\ pc' = "done"
            /\ exitCode' = 1
    /\ UNCHANGED <<argv, fs0, args, stdout>>

Recognize ==
    /\ pc = "dispatch"
    /\ args.command = "recognize"
    /\ \E world \in FindWorlds :
          AdapterCalled("recognize_face",
              recognize_face(args.img, args.db, args.model, args.backend,
                             args.enforce_detection, world, fs))

Analyze ==
    /\ pc = "dispatch"
    /\ args.command = "analyze"
    /\ \E world \in AnalyzeWorlds, io \in IoOutcomes :
          AdapterCalled("analyze_face",
              analyze_face(args.img, args.actions, args.model, args.backend,
                           args.enforce_detection, args.out, world, io, fs))

Verify ==
    /\ pc = "dispatch"
    /\ args.command = "verify"
    /\ \E world \in VerifyWorlds :
          AdapterCalled("verify_faces",
              verify_faces(args.img1, args.img2, args.model, args.metric,
                           args.backend, args.enforce_detection, world, fs))

\* print(json.dumps(result, indent=2, ensure_ascii=False)), then main returns;
\* json.dumps raising TypeError ends the process with a traceback and status 1
PrintResult ==
    /\ pc = "print"
    /\ IF JsonSerializable(ret)
       THEN /\ stdout' = Append(stdout, json_dumps(ret, PrintIndent))
            /\ exitCode' = 0
            /\ UNCHANGED stderr
       ELSE /\ stderr' = Append(stderr,
                    Traceback(Raise("TypeError", "not JSON serializable")))
            /\ exitCode' = 1
            /\ UNCHANGED stdout
    /\ pc' = "done"
    /\ UNCHANGED <<argv, fs0, args, ret, failure, raised, engineCalls,
                   engineAnswers, adapterCalls, fs>>

Next == ParseArgs \/ Recognize \/ Analyze \/ Verify \/ PrintResult

Spec == Init /\ [][Next]_vars

\* the process is sequential and keeps running until main returns
FairSpec == Spec /\ WF_vars(Next)

----------------------------------------------------------------------------
(* Properties *)

EngineFailed == engineAnswers # << >> /\ engineAnswers[1].exc # NoException
AdapterFailed == EngineFailed \/ failure # NoException
EmptyResultOf(adapter) ==
    IF adapter = "recognize_face" THEN [py |-> "list", e |-> << >>]
    ELSE [py |-> "dict", m |-> << >>]
OperationOf(adapter) ==
    CASE adapter = "recognize_face" -> "Recognition"
      [] adapter = "analyze_face" -> "Analysis"
      [] adapter = "verify_faces" -> "Verification"

\* C1: when the engine call or a later step inside an adapter fails, the
\* failure does not leave the adapter, exactly one line
\* "[ERROR] <Operation> failed: <message>" is on the error stream, and the
\* adapter returned the empty value of its shape ([] or {}).
C1_FailureContained ==
    (adapterCalls # << >> /\ AdapterFailed) =>
        /\ raised = NoException
        /\ failure # NoException
        /\ stderr = <<[prefix |-> "[ERROR]",
                       operation |-> OperationOf(adapterCalls[1]),
                       text |-> "failed:", msg |-> failure.msg]>>
        /\ ret = EmptyResultOf(adapterCalls[1])

\* the report could not be written after the engine had answered
C1_Witness ==
    /\ adapterCalls = <<"analyze_face">>
    /\ ~EngineFailed
    /\ failure.type = "OSError"
    /\ ret = EmptyDict
    /\ Len(stderr) = 1

ParsedOk == pc # "start" /\ ~args.error
ShapeOf(command) == IF command = "recognize" THEN "array" ELSE "object"

\* C2: every invocation that passes argument parsing ends with exactly one
\* JSON document on standard output, an array for recognize and an object for
\* analyze and verify, and exit code 0.
C2_AlwaysPrintsJson ==
    (pc = "done" /\ ParsedOk) =>
        /\ exitCode = 0
        /\ Len(stdout) = 1
        /\ stdout[1].doc.js = ShapeOf(args.command)

VerifyReturned == adapterCalls = <<"verify_faces">> /\ raised = NoException

\* C3 as stated: for every engine outcome the mapping verify_faces returns
\* has exactly the keys verified, distance and threshold.
C3_AlwaysThreeKeys ==
    VerifyReturned =>
        /\ ret.py = "dict"
        /\ DOMAIN ret.m = {"verified", "distance", "threshold"}

\* C3 amended: when the engine's verify call returns, the mapping
\* verify_faces returns has exactly the keys verified, distance and
\* threshold; when the engine's call fails, it is the empty mapping.
C3_ThreeKeysOrEmpty ==
    VerifyReturned =>
        /\ ret.py = "dict"
        /\ IF EngineFailed THEN DOMAIN ret.m = {}
           ELSE DOMAIN ret.m = {"verified", "distance", "threshold"}

\* the engine reported an extra field and omitted distance
C3_Witness ==
    /\ VerifyReturned
    /\ ~EngineFailed
    /\ "time" \in DOMAIN engineAnswers[1].value.m
    /\ "distance" \notin DOMAIN engineAnswers[1].value.m
    /\ DOMAIN ret.m = {"verified", "distance", "threshold"}

\* C4: when the engine's verify call returns a mapping, the verdict carries
\* under verified, distance and threshold the engine's value for that key,
\* unaltered, when the engine reported one, and otherwise False for verified
\* and None for distance and threshold; no other engine field is in it.
C4_VerdictValues ==
    (VerifyReturned /\ ~EngineFailed) =>
        LET reported == engineAnswers[1].value.m
        IN  /\ \A k \in {"verified", "distance", "threshold"} :
                  /\ k \in DOMAIN ret.m
                  /\ ret.m[k] = IF k \in DOMAIN reported THEN reported[k]
                                ELSE IF k = "verified"
                                     THEN [py |-> "bool", b |-> FALSE]
                                     ELSE [py |-> "None"]
            /\ \A k \in DOMAIN reported :
                  k \notin {"verified", "distance", "threshold"}
                      => k \notin DOMAIN ret.m

\* verified omitted by the engine, distance reported as a numpy scalar
C4_Witness ==
    /\ VerifyReturned
    /\ ~EngineFailed
    /\ DOMAIN engineAnswers[1].value.m = {"distance", "time"}
    /\ engineAnswers[1].value.m["distance"].py = "numpy"
    /\ ret.m["verified"] = PyBool(FALSE)
    /\ ret.m["distance"].py = "numpy"
    /\ ret.m["threshold"] = None

AnalyzeSucceeded ==
    /\ adapterCalls = <<"analyze_face">>
    /\ failure = NoException
    /\ raised = NoException

\* C5: analyze with an output path: whenever the call succeeds, the file at
\* the path holds JSON that deserializes to the same structure as the JSON
\* printed to standard output, and the file's previous content is gone.
C5_FileMatchesStdout ==
    (pc = "done" /\ AnalyzeSucceeded /\ Truthy(args.out)) =>
        /\ Len(stdout) = 1
        /\ fs[args.out.s].f = "json"
        /\ json_loads(fs[args.out.s].text) = json_loads(stdout[1])
        /\ fs[args.out.s] # fs0[args.out.s]

\* a report of two attributes replaced an existing file
C5_Witness ==
    /\ pc = "done"
    /\ AnalyzeSucceeded
    /\ Truthy(args.out)
    /\ fs0[ReportPath] = OldContent
    /\ fs[ReportPath].f = "json"
    /\ fs[ReportPath].text.indent # stdout[1].indent
    /\ Cardinality(DOMAIN json_loads(stdout[1]).m) = 2

AdapterOf(command) ==
    CASE command = "recognize" -> "recognize_face"
      [] command = "analyze" -> "analyze_face"
      [] command = "verify" -> "verify_faces"
EngineOpOf(command) ==
    CASE command = "recognize" -> "find"
      [] command = "analyze" -> "analyze"
      [] command = "verify" -> "verify"

\* the command line lacks the sub-command or one of its required flags
MissingRequired(av) ==
    \/ av.command = "<absent>"
    \/ av.command = "recognize" /\ (av.img = "<absent>" \/ av.db = "<absent>")
    \/ av.command = "analyze" /\ av.img = "<absent>"
    \/ av.command = "verify" /\ (av.img1 = "<absent>" \/ av.img2 = "<absent>")

C6_OneCall ==
    /\ Len(adapterCalls) <= 1
    /\ Len(engineCalls) = Len(adapterCalls)
    /\ (pc # "start" => (args.error <=> MissingRequired(argv)))
    /\ (pc = "done" /\ ~MissingRequired(argv)) =>
          /\ adapterCalls = <<AdapterOf(argv.command)>>
          /\ Len(engineCalls) = 1
          /\ engineCalls[1].op = EngineOpOf(argv.command)
    /\ (pc # "start" /\ MissingRequired(argv)) =>
          /\ pc = "done"
          /\ adapterCalls = << >>
          /\ engineCalls = << >>
          /\ stdout = << >>
          /\ exitCode # 0

\* C6: every invocation that passes argument parsing makes exactly one
\* adapter call, the one of its sub-command, with exactly one engine call in
\* it, and then terminates; an invocation that lacks the sub-command or a
\* required flag makes no adapter call, prints no JSON and ends non-zero.
C6_OneCallThenTerminates == [](C6_OneCall) /\ <>(pc = "done")

\* a verify invocation ran to its end with one call of each kind
C6_Witness ==
    /\ pc = "done"
    /\ argv.command = "verify"
    /\ adapterCalls = <<"verify_faces">>
    /\ Len(engineCalls) = 1
    /\ exitCode = 0

FlagOr(given, default) == IF given = "<absent>" THEN default ELSE given

\* C7: the configuration handed to the engine is the command line's flags
\* where given and the sub-command's defaults where omitted (recognize:
\* VGG-Face, opencv; analyze: Facenet, mtcnn, age gender race emotion; verify:
\* ArcFace, dlib, cosine); enforce_detection is false exactly when
\* --no-enforce is given.
C7_EngineConfiguration ==
    engineCalls # << >> =>
        LET c == engineCalls[1]
        IN  /\ c.enforce_detection = (~argv.no_enforce)
            /\ argv.command = "recognize" =>
                  /\ c.op = "find"
                  /\ c.img_path = argv.img
                  /\ c.db_path = argv.db
                  /\ c.model_name = FlagOr(argv.model, "VGG-Face")
                  /\ c.detector_backend = FlagOr(argv.backend, "opencv")
            /\ argv.command = "analyze" =>
                  /\ c.op = "analyze"
                  /\ c.img_path = argv.img
                  /\ c.model_name = FlagOr(argv.model, "Facenet")
                  /\ c.detector_backend = FlagOr(argv.backend, "mtcnn")
                  /\ c.actions.e =
                        (IF argv.actions = << >>
                         THEN <<"age", "gender", "race", "emotion">>
                         ELSE argv.actions)
            /\ argv.command = "verify" =>
                  /\ c.op = "verify"
                  /\ c.img1_path = argv.img1
                  /\ c.img2_path = argv.img2
                  /\ c.model_name = FlagOr(argv.model, "ArcFace")
                  /\ c.detector_backend = FlagOr(argv.backend, "dlib")
                  /\ c.distance_metric = FlagOr(argv.metric, "cosine")

\* verify with --no-enforce and a model given, metric and backend omitted
C7_Witness ==
    /\ engineCalls # << >>
    /\ argv.command = "verify"
    /\ argv.no_enforce
    /\ argv.model = "Facenet"
    /\ argv.metric = "<absent>"
    /\ argv.backend = "<absent>"
    /\ engineCalls[1].enforce_detection = FALSE
    /\ engineCalls[1].distance_metric = "cosine"

RequestedAttributes ==
    IF argv.actions = << >> THEN {"age", "gender", "race", "emotion"}
    ELSE Range(argv.actions)

\* C8: the mapping analyze_face returns has no key outside the requested
\* attributes.
C8_OnlyRequestedAttributes ==
    (adapterCalls = <<"analyze_face">> /\ raised = NoException) =>
        /\ ret.py = "dict"
        /\ DOMAIN ret.m \subseteq RequestedAttributes

\* only age was requested and only age is in the report
C8_Witness ==
    /\ adapterCalls = <<"analyze_face">>
    /\ argv.actions = <<"age">>
    /\ ret.py = "dict"
    /\ DOMAIN ret.m = {"age"}

RecognizeReturned == adapterCalls = <<"recognize_face">> /\ raised = NoException

\* C9: recognize_face returns one record per candidate of the engine, in the
\* engine's order, none dropped, duplicated or moved, so the records are in
\* non-decreasing order of distance.
C9_EngineOrderKept ==
    (RecognizeReturned /\ ~EngineFailed) =>
        LET rows == engineAnswers[1].value.rows
            hits == ret.e
        IN  /\ Len(hits) = Len(rows)
            /\ \A i \in DOMAIN rows :
                  /\ DOMAIN hits[i].m = {"identity", "distance"}
                  /\ hits[i].m["identity"] = rows[i][1]
                  /\ hits[i].m["distance"] = rows[i][2]
            /\ \A i, j \in DOMAIN hits :
                  i < j => hits[i].m["distance"].n <= hits[j].m["distance"].n

\* two candidates at different distances were returned
C9_Witness ==
    /\ RecognizeReturned
    /\ Len(ret.e) = 2
    /\ ret.e[1].m["distance"].n < ret.e[2].m["distance"].n
    /\ ret.e[1].m["identity"] # ret.e[2].m["identity"]

\* C10: whenever analyze_face reports failure (an "Analysis failed" line and
\* the empty mapping), the file at the output path is as it was before the
\* call; and with no output path given no file is written.
C10_FailureLeavesFiles ==
    adapterCalls = <<"analyze_face">> =>
        /\ (failure # NoException => fs = fs0)
        /\ (~Truthy(args.out) => fs = fs0)

====
